---- MODULE Spec2Model ----
(***************************************************************************)
(* A model of htmlgen::Document (src/document.h): the node tree built by   *)
(* Element::AddAttribute / AddChild / AddTextChild and its serialisation   *)
(* by the GetHTML methods.                                                 *)
(*                                                                         *)
(* A std::string is a sequence of one-character strings.  An object's      *)
(* address is its index in heap; heap[a] holds the fields of the object at *)
(* address a.  Addresses are handed out in allocation order.               *)
(***************************************************************************)
EXTENDS Integers, Sequences, FiniteSets, TLC

\* ------------------------------------------------------------------ bounds
\* Objects in the heap, the Document's root_ included.
MaxNodes == 3
\* Attributes in the whole document.
MaxAttrs == 2
\* GetHTML calls accumulated in one output string.
MaxRenders == 2
\* Element objects made by the copy constructor.
MaxCopies == 1
\* Length of the attribute values fed to Attribute::GetHTML alone.
MaxLen == 5

\* ------------------------------------------------------------------ inputs
dq == "\""
html == <<"h", "t", "m", "l">>
Names == {<<"a">>}
TextValues == {<<>>, <<"<", "&">>}
AttrNames == {<<"i", "d">>}
AttrValues == {<<"x">>, <<"a", dq, "b">>}
Chars == {"a", "b", dq, "&", "<"}
PriorContents == {<<>>, <<"x", dq>>}

VARIABLES
  heap,        \* address -> the object's fields
  out,         \* the caller's std::string after the last GetHTML call
  renders,     \* number of GetHTML calls accumulated in out
  dirty,       \* the tree was built on after the last GetHTML call
  handles,     \* what each AddChild call returned, and what it had created
  copies,      \* addresses of Element objects made by the copy constructor
  freed,       \* addresses operator delete has been applied to
  doubleFreed, \* addresses operator delete has been applied to twice
  destroyed,   \* Element objects (root_, copies) whose destructor has run
  a_name,      \* Attribute::name_ of the attribute being rendered alone
  a_value,     \* Attribute::value_ of that attribute
  a_prior,     \* the output string when that Attribute::GetHTML call began
  a_out,       \* the output string of that Attribute::GetHTML call
  escaped,     \* the local std::string escaped
  quote_pos,   \* the local size_t quote_pos
  iters,       \* number of completed iterations of the do-while loop
  pc           \* position in Attribute::GetHTML

treeVars == <<heap, out, renders, dirty, handles>>
lifeVars == <<copies, freed, doubleFreed, destroyed>>
escVars == <<a_name, a_value, a_prior, a_out, escaped, quote_pos, iters, pc>>
vars == <<heap, out, renders, dirty, handles, copies, freed, doubleFreed,
          destroyed, a_name, a_value, a_prior, a_out, escaped, quote_pos, iters, pc>>

\* ------------------------------------------------------- std::string, vector
\* std::string::npos: find's result when there is no match (positions are
\* 1-based here, so 0 is no position).
npos == 0

\* std::string::find(c): the first position holding c, or npos.
find(s, c) ==
  IF \E i \in 1..Len(s) : s[i] = c
    THEN CHOOSE i \in 1..Len(s) : s[i] = c /\ \A j \in 1..(i - 1) : s[j] # c
    ELSE npos

\* replace with one character too many taken out.
replace_OneTooMany(s, pos, n, r) ==
  SubSeq(s, 1, pos - 1) \o r \o SubSeq(s, pos + n + 1, Len(s))

\* std::string::replace(pos, n, r): the n characters at pos replaced by r.
replace(s, pos, n, r) ==
  SubSeq(s, 1, pos - 1) \o r \o SubSeq(s, pos + n, Len(s))

\* std::string::append.
append(s, t) == s \o t

\* An insert at the front in place of push_back.
push_front(v, x) == <<x>> \o v

\* std::vector::push_back.
push_back(v, x) == Append(v, x)

\* std::vector::back.
back(v) == v[Len(v)]

\* ------------------------------------------------------------- constructors
Attribute(name, value) == [name_ |-> name, value_ |-> value]

TextNode(value) == [kind |-> "TextNode", value_ |-> value]

Element(name) ==
  [kind |-> "Element", name_ |-> name, attributes_ |-> <<>>, children_ |-> <<>>]

\* The address operator new returns: the next unused one.
new(h) == Len(h) + 1

Root == 1

\* Document::root().
root == Root

\* ----------------------------------------------------------------- GetHTML
\* The entity without its semicolon.
quot_NoSemicolon == <<"&", "q", "u", "o", "t">>

quot == <<"&", "q", "u", "o", "t", ";">>

\* The do-while loop of Attribute::GetHTML, entered with the first quote
\* found at qpos: replace it, search again from the start of the string.
RECURSIVE EscapeLoop(_, _)
EscapeLoop(esc, qpos) ==
  LET esc2 == replace(esc, qpos, 1, quot)
      qpos2 == find(esc2, dq)
  IN  IF qpos2 # npos THEN EscapeLoop(esc2, qpos2) ELSE esc2

AttributeGetHTML(o, a) ==
  LET o1 == append(o, a.name_)
      o2 == append(o1, <<"=", dq>>)
      qpos == find(a.value_, dq)
      o3 == IF qpos # npos
              THEN append(o2, EscapeLoop(a.value_, qpos))
              ELSE append(o2, a.value_)
  IN  append(o3, <<dq>>)

TextNodeGetHTML(o, n) == append(o, n.value_)

\* The loop over attributes_ of Element::GetHTML, from index i on.
RECURSIVE AttributesLoop(_, _, _)
AttributesLoop(o, attrs, i) ==
  IF i > Len(attrs) THEN o
  ELSE AttributesLoop(AttributeGetHTML(append(o, <<" ">>), attrs[i]), attrs, i + 1)

\* The test with an off-by-one: children_.size() > 1.
HasChildren_MoreThanOne(e) == Len(e.children_) > 1

\* The test children_.size() > 0 of Element::GetHTML.
HasChildren(e) == Len(e.children_) > 0

\* The closing tag of Element::GetHTML.
CloseTag(o, e) == append(append(append(o, <<"<", "/">>), e.name_), <<">">>)

\* The self-closing end without its space.
SelfClose_NoSpace(o) == append(o, <<"/", ">">>)

\* The self-closing end of Element::GetHTML.
SelfClose(o) == append(o, <<" ", "/", ">">>)

RECURSIVE NodeGetHTML(_, _, _)
RECURSIVE ChildrenLoop(_, _, _, _)

\* The loop over children_ of Element::GetHTML, from index i on; each child
\* is rendered through the virtual Node::GetHTML.
ChildrenLoop(h, o, kids, i) ==
  IF i > Len(kids) THEN o
  ELSE ChildrenLoop(h, NodeGetHTML(h, o, kids[i]), kids, i + 1)

ElementGetHTML(h, o, a) ==
  LET e == h[a]
      o1 == append(append(o, <<"<">>), e.name_)
      o2 == AttributesLoop(o1, e.attributes_, 1)
  IN  IF HasChildren(e)
        THEN CloseTag(ChildrenLoop(h, append(o2, <<">">>), e.children_, 1), e)
        ELSE SelfClose(o2)

\* Virtual dispatch of Node::GetHTML on the object at address a.
NodeGetHTML(h, o, a) ==
  IF h[a].kind = "Element" THEN ElementGetHTML(h, o, a)
  ELSE TextNodeGetHTML(o, h[a])

doctype ==
  <<"<", "!", "D", "O", "C", "T", "Y", "P", "E", " ", "h", "t", "m", "l", ">", "\n">>

\* Document::GetHTML without the final newline.
DocumentGetHTML_NoNewline(h, o) == ElementGetHTML(h, append(o, doctype), Root)

\* Document::GetHTML assigning the doctype line to out instead of appending it.
DocumentGetHTML_Assign(h, o) ==
  append(ElementGetHTML(h, doctype, Root), <<"\n">>)

\* Document::GetHTML(out) on the document whose root_ is at Root.
DocumentGetHTML(h, o) ==
  append(ElementGetHTML(h, append(o, doctype), Root), <<"\n">>)

\* ------------------------------------------------------------------- state
Elements == {a \in DOMAIN heap : heap[a].kind = "Element"}

NumAttrs(h) ==
  LET RECURSIVE Sum(_)
      Sum(i) == IF i = 0 THEN 0
                ELSE (IF h[i].kind = "Element" THEN Len(h[i].attributes_) ELSE 0)
                     + Sum(i - 1)
  IN  Sum(Len(h))

\* An Element the caller can still use: it has not been destroyed or freed.
Live(a) == a \notin freed /\ a \notin destroyed

\* The Elements a caller can reach: root(), the handles AddChild returned,
\* and the copies it made.  Nothing is reachable once a delete was repeated.
Targets ==
  {a \in {root} \cup {hd.ptr : hd \in handles} \cup copies :
     Live(a) /\ doubleFreed = {}}

\* Room for one more node under the bounds (copies are not nodes).
Room == Len(heap) - Cardinality(copies) < MaxNodes

InitTree ==
  /\ heap = <<Element(html)>>
  /\ out = <<>>
  /\ renders = 0
  /\ dirty = FALSE
  /\ handles = {}

InitLife ==
  /\ copies = {}
  /\ freed = {}
  /\ doubleFreed = {}
  /\ destroyed = {}

InitEsc ==
  /\ a_name = <<>>
  /\ a_value = <<>>
  /\ a_prior = <<>>
  /\ a_out = <<>>
  /\ escaped = <<>>
  /\ quote_pos = npos
  /\ iters = 0
  /\ pc = "idle"

Init == InitTree /\ InitLife /\ InitEsc

\* ------------------------------------------------------------ build actions
\* Element::AddAttribute(name, value) on the Element at e.
AddAttribute(e, name, value) ==
  /\ NumAttrs(heap) < MaxAttrs
  /\ heap' = [heap EXCEPT ![e].attributes_ = push_back(@, Attribute(name, value))]
  /\ dirty' = TRUE
  /\ UNCHANGED <<out, renders, handles>>
  /\ UNCHANGED lifeVars /\ UNCHANGED escVars

\* children_.front() returned in place of children_.back().
AddChildResult_Front(h, e) == h[e].children_[1]

\* The pointer Element::AddChild returns: children_.back() of the parent.
AddChildResult(h, e) == back(h[e].children_)

\* Element::AddChild(name) on the Element at e.
AddChild(e, name) ==
  /\ Room
  /\ LET c == new(heap)
         h2 == [Append(heap, Element(name)) EXCEPT ![e].children_ = push_back(@, c)]
     IN  /\ heap' = h2
         /\ handles' = handles \cup
              {[ptr |-> AddChildResult(h2, e), created |-> c, parent |-> e,
                pos |-> Len(h2[e].children_), name |-> name]}
  /\ dirty' = TRUE
  /\ UNCHANGED <<out, renders>>
  /\ UNCHANGED lifeVars /\ UNCHANGED escVars

\* Element::AddTextChild(value) on the Element at e.
AddTextChild(e, value) ==
  /\ Room
  /\ LET c == new(heap)
     IN  heap' = [Append(heap, TextNode(value)) EXCEPT ![e].children_ = push_back(@, c)]
  /\ dirty' = TRUE
  /\ UNCHANGED <<out, renders, handles>>
  /\ UNCHANGED lifeVars /\ UNCHANGED escVars

\* A GetHTML that empties the root's child list as it renders.
GetHTML_Destructive ==
  /\ out' = DocumentGetHTML(heap, <<>>)
  /\ renders' = 1
  /\ dirty' = FALSE
  /\ heap' = [heap EXCEPT ![Root].children_ = <<>>]
  /\ UNCHANGED handles
  /\ UNCHANGED lifeVars /\ UNCHANGED escVars

\* Document::GetHTML(out).  The caller passes a fresh empty string, or once
\* more the string the previous call filled while the document is as it was.
GetHTML ==
  /\ \E p \in {<<>>, out} :
       /\ p = <<>> \/ (~dirty /\ renders < MaxRenders)
       /\ out' = DocumentGetHTML(heap, p)
       /\ renders' = IF p = <<>> THEN 1 ELSE renders + 1
  /\ dirty' = FALSE
  /\ UNCHANGED <<heap, handles>>
  /\ UNCHANGED lifeVars /\ UNCHANGED escVars

Next ==
  \/ \E e \in Targets, n \in AttrNames, v \in AttrValues : AddAttribute(e, n, v)
  \/ \E e \in Targets, n \in Names : AddChild(e, n)
  \/ \E e \in Targets, v \in TextValues : AddTextChild(e, v)
  \/ GetHTML

Spec == Init /\ [][Next]_vars

\* ------------------------------------------------- copies and destruction
\* The implicitly generated copy constructor of Element: name_, attributes_
\* and children_ are copied member by member, so the copy's children_ holds
\* the same pointers as the source's.
CopyConstruct(e) == e

\* Element c(*src): a new Element object, copy-constructed from the one at src.
CopyElement(src) ==
  /\ Cardinality(copies) < MaxCopies
  /\ heap' = Append(heap, CopyConstruct(heap[src]))
  /\ copies' = copies \cup {new(heap)}
  /\ UNCHANGED <<out, renders, dirty, handles, freed, doubleFreed, destroyed>>
  /\ UNCHANGED escVars

\* Element::~Element on an object whose children_ is kids, from index i on:
\* delete each child, which runs the child's destructor and frees it.  A
\* delete of a pointer already freed is recorded and ends the walk: what the
\* program does from there is undefined.
RECURSIVE DestructorLoop(_, _, _, _)
DestructorLoop(h, st, kids, i) ==
  IF i > Len(kids) \/ st.twice # {} THEN st
  ELSE LET c == kids[i]
       IN  IF c \in st.freed THEN [st EXCEPT !.twice = {c}]
           ELSE LET st1 == IF h[c].kind = "Element"
                             THEN DestructorLoop(h, st, h[c].children_, 1)
                             ELSE st
                IN  IF st1.twice # {} THEN st1
                    ELSE DestructorLoop(h, [st1 EXCEPT !.freed = @ \cup {c}], kids, i + 1)

\* The end of the lifetime of a Document (obj = Root) or of a copy.
Destroy(obj) ==
  /\ doubleFreed = {}
  /\ obj \notin destroyed
  /\ LET st == DestructorLoop(heap, [freed |-> freed, twice |-> {}],
                              heap[obj].children_, 1)
     IN  /\ freed' = st.freed
         /\ doubleFreed' = st.twice
  /\ destroyed' = destroyed \cup {obj}
  /\ UNCHANGED <<heap, out, renders, dirty, handles, copies>>
  /\ UNCHANGED escVars

NextLifetime ==
  \/ \E e \in Targets, n \in AttrNames, v \in AttrValues : AddAttribute(e, n, v)
  \/ \E e \in Targets, n \in Names : AddChild(e, n)
  \/ \E e \in Targets, v \in TextValues : AddTextChild(e, v)
  \/ \E e \in Targets : CopyElement(e)
  \/ \E obj \in {Root} \cup copies : Destroy(obj)

SpecLifetime == Init /\ [][NextLifetime]_vars

\* ------------------------------------------- Attribute::GetHTML, step by step
RECURSIVE Strings(_)
Strings(n) ==
  IF n = 0 THEN {<<>>}
  ELSE Strings(n - 1) \cup
       {Append(s, c) : s \in {t \in Strings(n - 1) : Len(t) = n - 1}, c \in Chars}

InitEscape ==
  /\ InitTree /\ InitLife
  /\ a_name \in AttrNames
  /\ a_value \in Strings(MaxLen)
  /\ a_prior \in PriorContents
  /\ a_out = a_prior
  /\ escaped = <<>>
  /\ quote_pos = npos
  /\ iters = 0
  /\ pc = "begin"

\* out.append(name_); out.append("=\""); quote_pos = value_.find('"'); if ...
Begin ==
  /\ pc = "begin"
  /\ a_out' = append(append(a_out, a_name), <<"=", dq>>)
  /\ quote_pos' = find(a_value, dq)
  /\ pc' = IF quote_pos' # npos THEN "copy" ELSE "plain"
  /\ UNCHANGED <<a_name, a_value, a_prior, escaped, iters>>
  /\ UNCHANGED treeVars /\ UNCHANGED lifeVars

\* std::string escaped(value_);
CopyValue ==
  /\ pc = "copy"
  /\ escaped' = a_value
  /\ pc' = "loop"
  /\ UNCHANGED <<a_name, a_value, a_prior, a_out, quote_pos, iters>>
  /\ UNCHANGED treeVars /\ UNCHANGED lifeVars

\* One iteration of do { replace; find } while (quote_pos != npos).
LoopBody ==
  /\ pc = "loop"
  /\ escaped' = replace(escaped, quote_pos, 1, quot)
  /\ quote_pos' = find(escaped', dq)
  /\ iters' = iters + 1
  /\ pc' = IF quote_pos' # npos THEN "loop" ELSE "append"
  /\ UNCHANGED <<a_name, a_value, a_prior, a_out>>
  /\ UNCHANGED treeVars /\ UNCHANGED lifeVars

\* out.append(escaped);
AppendEscaped ==
  /\ pc = "append"
  /\ a_out' = append(a_out, escaped)
  /\ pc' = "close"
  /\ UNCHANGED <<a_name, a_value, a_prior, escaped, quote_pos, iters>>
  /\ UNCHANGED treeVars /\ UNCHANGED lifeVars

\* else out.append(value_);
AppendPlain ==
  /\ pc = "plain"
  /\ a_out' = append(a_out, a_value)
  /\ pc' = "close"
  /\ UNCHANGED <<a_name, a_value, a_prior, escaped, quote_pos, iters>>
  /\ UNCHANGED treeVars /\ UNCHANGED lifeVars

\* out.append("\"", 1);
CloseQuote ==
  /\ pc = "close"
  /\ a_out' = append(a_out, <<dq>>)
  /\ pc' = "done"
  /\ UNCHANGED <<a_name, a_value, a_prior, escaped, quote_pos, iters>>
  /\ UNCHANGED treeVars /\ UNCHANGED lifeVars

NextEscape ==
  \/ Begin
  \/ CopyValue
  \/ LoopBody
  \/ AppendEscaped
  \/ AppendPlain
  \/ CloseQuote

\* The call is ordinary sequential code: it runs on until it returns.
SpecEscape == InitEscape /\ [][NextEscape]_vars /\ WF_vars(NextEscape)

\* =================================================================== claims
\* What the claims are stated with: the expected text, written by structure.
EntityQuot == <<"&", "q", "u", "o", "t", ";">>

DoctypeLine ==
  <<"<", "!", "D", "O", "C", "T", "Y", "P", "E", " ", "h", "t", "m", "l", ">", "\n">>

Count(s, c) == Cardinality({i \in 1..Len(s) : s[i] = c})

\* value with every double quote replaced by &quot; and nothing else changed.
RECURSIVE Escaped(_)
Escaped(s) ==
  IF s = <<>> THEN <<>>
  ELSE (IF Head(s) = dq THEN EntityQuot ELSE <<Head(s)>>) \o Escaped(Tail(s))

\* The concatenation of a sequence of strings.
RECURSIVE Flatten(_)
Flatten(ss) == IF ss = <<>> THEN <<>> ELSE Head(ss) \o Flatten(Tail(ss))

\* sub occurs in s as a contiguous run.
Occurs(sub, s) ==
  \E i \in 1..(Len(s) - Len(sub) + 1) : SubSeq(s, i, i + Len(sub) - 1) = sub

IsPrefix(s, t) == Len(s) <= Len(t) /\ SubSeq(t, 1, Len(s)) = s

AttributeText(a) == a.name_ \o <<"=", dq>> \o Escaped(a.value_) \o <<dq>>

AttributesText(attrs) ==
  Flatten([i \in 1..Len(attrs) |-> <<" ">> \o AttributeText(attrs[i])])

\* What GetHTML makes of the node at a in an empty string.
Rendering(h, a) == NodeGetHTML(h, <<>>, a)

ChildrenText(h, kids) == Flatten([i \in 1..Len(kids) |-> Rendering(h, kids[i])])

Repeat(s, k) == Flatten([i \in 1..k |-> s])

\* ----------------------------------------------------------------------- C1
\* C1: the root's tag is always "html", and Document::GetHTML into an empty
\* string leaves exactly the doctype line, the root element's rendering and
\* one newline; for a freshly constructed Document that is
\* "<!DOCTYPE html>\n<html />\n".
C1_DocumentRendering ==
  /\ heap[Root].kind = "Element"
  /\ heap[Root].name_ = <<"h", "t", "m", "l">>
  /\ (renders = 1 /\ ~dirty) =>
       /\ out = DoctypeLine \o Rendering(heap, Root) \o <<"\n">>
       /\ heap = <<Element(html)>> =>
            out = DoctypeLine \o <<"<", "h", "t", "m", "l", " ", "/", ">", "\n">>

C1_Witness ==
  /\ renders = 1 /\ ~dirty
  /\ Len(heap[Root].children_) = 2
  /\ Len(heap[Root].attributes_) = 1

\* ----------------------------------------------------------------------- C2
\* C2: an element without children renders as "<" name, then " " and the
\* attribute's text for each attribute in order, then " />", and holds no
\* closing tag "</name>".
C2_ChildlessElement ==
  \A e \in Elements :
    heap[e].children_ = <<>> =>
      /\ Rendering(heap, e) =
           <<"<">> \o heap[e].name_ \o AttributesText(heap[e].attributes_)
             \o <<" ", "/", ">">>
      /\ ~Occurs(<<"<", "/">> \o heap[e].name_ \o <<">">>, Rendering(heap, e))

C2_Witness ==
  \E e, f \in Elements :
    /\ heap[e].children_ = <<>> /\ Len(heap[e].attributes_) = 2
    /\ heap[e].attributes_[1] # heap[e].attributes_[2]
    /\ heap[f].children_ = <<>> /\ heap[f].attributes_ = <<>>

\* ----------------------------------------------------------------------- C3
\* The nodes form one chain of elements without attributes: node i + 1 is
\* the only child of node i.
IsChain(h) ==
  \A i \in 1..Len(h) :
    /\ h[i].kind = "Element"
    /\ h[i].attributes_ = <<>>
    /\ h[i].children_ = IF i < Len(h) THEN <<i + 1>> ELSE <<>>

ChainText(h) ==
  LET n == Len(h)
  IN  Flatten([i \in 1..(n - 1) |-> <<"<">> \o h[i].name_ \o <<">">>])
        \o <<"<">> \o h[n].name_ \o <<" ", "/", ">">>
        \o Flatten([i \in 1..(n - 1) |-> <<"<", "/">> \o h[n - i].name_ \o <<">">>])

\* C3: an element with at least one child renders as "<" name, its
\* attributes, ">", the children's renderings in order, "</" name ">", never
\* in the self-closing form; a chain of nested single-child elements renders
\* as its opening tags, the innermost element self-closed, and the closing
\* tags in reverse.
C3_ElementWithChildren ==
  /\ \A e \in Elements :
       Len(heap[e].children_) >= 1 =>
         /\ Rendering(heap, e) =
              <<"<">> \o heap[e].name_ \o AttributesText(heap[e].attributes_)
                \o <<">">> \o ChildrenText(heap, heap[e].children_)
                \o <<"<", "/">> \o heap[e].name_ \o <<">">>
         /\ LET r == Rendering(heap, e)
            IN  SubSeq(r, Len(r) - 2, Len(r)) # <<" ", "/", ">">>
  /\ IsChain(heap) => Rendering(heap, Root) = ChainText(heap)

C3_Witness ==
  /\ Len(heap) = 3
  /\ heap[1].children_ = <<2>>
  /\ heap[2].kind = "Element" /\ heap[2].children_ = <<3>>
  /\ heap[3] = TextNode(<<>>)
  /\ Rendering(heap, Root) =
       <<"<", "h", "t", "m", "l", ">", "<", "a", ">", "<", "/", "a", ">",
         "<", "/", "h", "t", "m", "l", ">">>

\* ----------------------------------------------------------------------- C4
\* The part of a_out between the opening and the closing quote.
EmittedValue ==
  SubSeq(a_out, Len(a_prior) + Len(a_name) + 3, Len(a_out) - 1)

\* C4: Attribute::GetHTML appends name, =", the value with every double
\* quote replaced by &quot; and every other character kept, and "; the
\* emitted value holds no double quote, a value without quotes is emitted
\* unchanged, a"b gives a&quot;b and "a"b" gives &quot;a&quot;b&quot;.
C4_AttributeEscaping ==
  pc = "done" =>
    /\ a_out = a_prior \o a_name \o <<"=", dq>> \o Escaped(a_value) \o <<dq>>
    /\ a_out = AttributeGetHTML(a_prior, Attribute(a_name, a_value))
    /\ Count(EmittedValue, dq) = 0
    /\ Count(a_value, dq) = 0 => EmittedValue = a_value
    /\ a_value = <<"a", dq, "b">> =>
         EmittedValue = <<"a", "&", "q", "u", "o", "t", ";", "b">>
    /\ a_value = <<dq, "a", dq, "b", dq>> =>
         EmittedValue = <<"&", "q", "u", "o", "t", ";", "a", "&", "q", "u", "o", "t", ";",
                          "b", "&", "q", "u", "o", "t", ";">>
    /\ a_value = <<"&", "<">> => EmittedValue = <<"&", "<">>

C4_Witness ==
  /\ pc = "done"
  /\ a_prior = <<>>
  /\ a_value = <<dq, "a", dq, "b", dq>>
  /\ a_out = <<"i", "d", "=", dq, "&", "q", "u", "o", "t", ";", "a", "&", "q", "u",
               "o", "t", ";", "b", "&", "q", "u", "o", "t", ";", dq>>

\* ----------------------------------------------------------------------- C5
\* s is t with exactly one entry added at the end.
GrewByOne(t, s) == Len(s) = Len(t) + 1 /\ SubSeq(s, 1, Len(t)) = t

\* s with t inserted after its first k characters.
InsertAt(s, k, t) == SubSeq(s, 1, k) \o t \o SubSeq(s, k + 1, Len(s))

\* The length of "<" name and the attributes in the rendering of element e.
OpenLen(e) == 1 + Len(e.name_) + Len(AttributesText(e.attributes_))

\* One step of the building API, seen on the element at e.
AppendOnlyAt(e) ==
  /\ heap'[e].kind = heap[e].kind
  /\ heap[e].kind = "TextNode" => heap'[e] = heap[e]
  /\ heap[e].kind = "Element" =>
       /\ heap'[e].name_ = heap[e].name_
       /\ \/ heap'[e] = heap[e]
          \* AddAttribute: one attribute more, at the end; the same children;
          \* its text goes into the rendering right after the earlier ones.
          \/ /\ GrewByOne(heap[e].attributes_, heap'[e].attributes_)
             /\ heap'[e].children_ = heap[e].children_
             /\ Len(heap') = Len(heap)
             /\ Rendering(heap', e) =
                  InsertAt(Rendering(heap, e), OpenLen(heap[e]),
                           <<" ">> \o AttributeText(back(heap'[e].attributes_)))
          \* AddChild, AddTextChild: one child more, at the end, newly made;
          \* the same attributes; its rendering follows the earlier children's.
          \/ /\ GrewByOne(heap[e].children_, heap'[e].children_)
             /\ heap'[e].attributes_ = heap[e].attributes_
             /\ back(heap'[e].children_) = Len(heap) + 1
             /\ Len(heap') = Len(heap) + 1
             /\ heap[e].children_ # <<>> =>
                  Rendering(heap', e) =
                    InsertAt(Rendering(heap, e),
                             Len(Rendering(heap, e)) - Len(heap[e].name_) - 3,
                             Rendering(heap', back(heap'[e].children_)))

\* C5: every step appends at most one attribute or one child, at the end of
\* one element's list, and leaves every earlier entry of every element as it
\* was (nothing removed, reordered or merged); the rendering shows the new
\* entry after the earlier ones.
C5_AppendOnly ==
  [][/\ \A e \in DOMAIN heap : AppendOnlyAt(e)
     /\ Cardinality({e \in DOMAIN heap : heap'[e] # heap[e]}) <= 1
     /\ Len(heap') > Len(heap) =>
          \E e \in Elements : GrewByOne(heap[e].children_, heap'[e].children_)]_vars

\* Two attributes of the same name and value, after a text and an element child.
C5_Witness ==
  /\ Len(heap) = 3
  /\ Len(heap[Root].attributes_) = 2
  /\ heap[Root].attributes_[1] = heap[Root].attributes_[2]
  /\ heap[Root].children_ = <<2, 3>>
  /\ heap[2].kind = "TextNode" /\ heap[3].kind = "Element"
  /\ out # <<>>

\* ----------------------------------------------------------------------- C6
\* C6: a GetHTML call changes nothing in the tree, and a second call into an
\* empty string on the document as it was yields the same string again.
C6_RenderIsPure ==
  [][/\ (out' # out \/ renders' # renders \/ (dirty /\ ~dirty')) =>
          (heap' = heap /\ handles' = handles)
     /\ (renders = 1 /\ ~dirty /\ renders' = 1) => out' = out]_vars

\* A rendering was taken between two build operations.
C6_Witness ==
  /\ renders = 1 /\ dirty
  /\ Len(heap) = 3
  /\ out = DoctypeLine \o <<"<", "h", "t", "m", "l", ">", "<", "a", " ", "/", ">",
                            "<", "/", "h", "t", "m", "l", ">", "\n">>

\* ----------------------------------------------------------------------- C7
\* The Element objects whose children_ holds the address n.
Holders(n) ==
  {e \in Elements : \E i \in 1..Len(heap[e].children_) : heap[e].children_[i] = n}

\* C7: every node but the root (and but the Element objects copied from
\* others, which are no one's child) is in the child list of exactly one
\* element, the root in none, and no node is deleted twice.
C7_ExclusiveOwnership ==
  /\ \A n \in DOMAIN heap :
       Cardinality(Holders(n)) = IF n = Root \/ n \in copies THEN 0 ELSE 1
  /\ doubleFreed = {}

\* ----------------------------------------------------------------------- C8
\* C8: every handle AddChild returned is the address of the element that call
\* created, still an element of the name asked for, still at the position in
\* its parent's child list where it was added; and a step changes no object
\* but the one it was called on, which is the root or a handle's element.
C8_HandleStable ==
  /\ [](\A hd \in handles :
          /\ hd.ptr = hd.created
          /\ hd.ptr \in DOMAIN heap
          /\ heap[hd.ptr].kind = "Element"
          /\ heap[hd.ptr].name_ = hd.name
          /\ heap[hd.parent].kind = "Element"
          /\ hd.pos <= Len(heap[hd.parent].children_)
          /\ heap[hd.parent].children_[hd.pos] = hd.ptr
          /\ Holders(hd.ptr) = {hd.parent})
  /\ [][/\ handles \subseteq handles'
        /\ \A n \in DOMAIN heap :
             heap'[n] # heap[n] =>
               /\ n \in {root} \cup {hd.ptr : hd \in handles}
               /\ \A m \in DOMAIN heap : m # n => heap'[m] = heap[m]]_vars

\* A handle to the first child, used after the parent's child list grew.
C8_Witness ==
  \E hd \in handles :
    /\ hd.parent = Root /\ hd.pos = 1
    /\ Len(heap[Root].children_) = 2
    /\ Len(heap[hd.ptr].attributes_) = 1
    /\ heap[Root].attributes_ = <<>>

\* ----------------------------------------------------------------------- C9
AllAttributes ==
  UNION {{heap[e].attributes_[i] : i \in 1..Len(heap[e].attributes_)} : e \in Elements}

\* C9: every GetHTML leaves the output's prior content in place and puts the
\* node's rendering after it; GetHTML called k times on one string for the
\* same document leaves k copies of the document's rendering in it.
C9_AppendsToOutput ==
  /\ \A p \in PriorContents :
       /\ \A n \in DOMAIN heap : NodeGetHTML(heap, p, n) = p \o NodeGetHTML(heap, <<>>, n)
       /\ \A a \in AllAttributes : AttributeGetHTML(p, a) = p \o AttributeGetHTML(<<>>, a)
       /\ DocumentGetHTML(heap, p) = p \o DocumentGetHTML(heap, <<>>)
  /\ ~dirty => out = Repeat(DoctypeLine \o Rendering(heap, Root) \o <<"\n">>, renders)

C9_Witness ==
  /\ renders = 2 /\ ~dirty
  /\ Len(heap) = 3
  /\ Len(out) = 2 * Len(DocumentGetHTML(heap, <<>>))
  /\ AllAttributes # {}

\* ---------------------------------------------------------------------- C10
\* The first position of a double quote in s (0 when there is none).
FirstQuote(s) ==
  IF Count(s, dq) = 0 THEN 0
  ELSE CHOOSE i \in 1..Len(s) : s[i] = dq /\ Count(SubSeq(s, 1, i - 1), dq) = 0

\* C10: the escaping loop ends for every value; every iteration replaces the
\* first remaining double quote, so the working copy holds one double quote
\* less after it, and the loop runs once per double quote of the value; the
\* stored value is never changed.
C10_LoopTerminates ==
  /\ <>(pc = "done")
  /\ [](/\ pc = "loop" =>
             /\ quote_pos = FirstQuote(escaped) /\ quote_pos # 0
             /\ Count(escaped, dq) = Count(a_value, dq) - iters
        /\ pc \in {"plain", "append", "close", "done"} => iters = Count(a_value, dq))
  /\ [][/\ a_value' = a_value
        /\ pc = "loop" =>
             /\ Count(escaped', dq) = Count(escaped, dq) - 1
             /\ iters' = iters + 1
             /\ escaped' = SubSeq(escaped, 1, FirstQuote(escaped) - 1) \o EntityQuot
                             \o SubSeq(escaped, FirstQuote(escaped) + 1, Len(escaped))]_vars

C10_Witness ==
  /\ pc = "done"
  /\ Count(a_value, dq) = 3
  /\ iters = 3
  /\ a_value[1] = dq /\ a_value[2] = dq

====
